---- MODULE Spec2Model ----
(***************************************************************************)
(* Model of ScriptEnvironment (src/multimodal-transform.js, lines 348-523): *)
(* executeScript and the closures of createContext, as the event loop runs *)
(* them.  One executeScript call is an invocation i \in Inv; its code is   *)
(* cut at its await points, and the synchronous run of the script body is  *)
(* cut at the script's console calls.  While a script body runs            *)
(* (running # 0) nothing else runs: JavaScript is single threaded.         *)
(***************************************************************************)
EXTENDS Integers, Sequences, FiniteSets, TLC

\* ---------------------------------------------------------------- bounds
\* number of executeScript calls made on the one instance
NumInv == 2
\* options.maxCalls as configured for the model (the default is 10000)
maxCalls == 1
\* a script body makes at most this many console calls
MaxScriptCalls == maxCalls + 2

\* ------------------------------------------------------ program constants
\* default of options.maxMemory: 1024 * 1024 * 10
maxMemory == 10485760

Inv == 1..NumInv
\* script ids, as character sequences: "t1" and "t10"
ScriptIds == { <<"t", "1">>, <<"t", "1", "0">> }
\* process.memoryUsage().heapUsed as the environment may report it
HeapValues == {maxMemory, maxMemory + 1}

\* ------------------------------------------------------------- the catalog
\* BLACKLIST, in the key order of the object literal (first four entries)
BLACKLIST ==
    << [symbol |-> "process", risk |-> "CRITICAL",
        reasons |-> << "Access to environment variables and secrets",
                       "System information exposure",
                       "Process termination capability",
                       "Direct stdio access" >>],
       [symbol |-> "require", risk |-> "CRITICAL",
        reasons |-> << "Arbitrary module loading", "File system access",
                       "Network capabilities", "Native module execution" >>],
       [symbol |-> "eval", risk |-> "CRITICAL",
        reasons |-> << "Dynamic code execution", "Sandbox escape potential",
                       "Context manipulation" >>],
       [symbol |-> "fs", risk |-> "HIGH",
        reasons |-> << "File reading/writing", "Directory manipulation",
                       "File deletion", "Sensitive data access" >>],
       [symbol |-> "os", risk |-> "MEDIUM",
        reasons |-> << "System information disclosure",
                       "Network interface enumeration",
                       "Resource usage monitoring" >>] >>

\* script texts, as the sequence of their word tokens
ScriptContents == { <<"x", "y">>, <<"require", "fs">> }

\* --------------------------------------------------------- script values
\* A JavaScript value: t is its typeof, n the number or the object's
\* identity, s the string or the function's name, props the properties of
\* a parsed JSON object.
Val(t, n, s) == [t |-> t, n |-> n, s |-> s, props |-> <<>>]
Num(n) == Val("number", n, "")
Str(s) == Val("string", 0, s)
Undefined == Val("undefined", 0, "")
Func(name) == Val("function", 0, name)
Ref(id) == Val("object", id, "")
\* a key the record does not have
Absent == Val("absent", 0, "")
\* JSON.stringify threw instead of returning a text
Throws == Val("throws", 0, "")
JsonObject(props) == [t |-> "jsonobject", n |-> 0, s |-> "", props |-> props]

\* the objects there are: object identity -> properties, in insertion order
VARIABLE heap

\* the objects a script can build: 1 = {a: 15}, 2 = {self: <2>},
\* 3 = {f: function f(){}, g: function(){}}, 4 = {p: <1>, q: <1>}
ObjHeap == [id \in 1..4 |->
              CASE id = 1 -> << [k |-> "a", v |-> Num(15)] >>
                [] id = 2 -> << [k |-> "self", v |-> Ref(2)] >>
                [] id = 3 -> << [k |-> "f", v |-> Func("f")],
                                [k |-> "g", v |-> Func("")] >>
                [] id = 4 -> << [k |-> "p", v |-> Ref(1)],
                                [k |-> "q", v |-> Ref(1)] >> ]

\* the values a script's final expression can have
FinalValues == { Num(15), Undefined, Ref(2), Ref(3) }

\* JSON.stringify(value) followed by JSON.parse, without a replacer: the
\* value as it is read back from the file.  stack holds the objects being
\* serialized; meeting one of them again is the TypeError "Converting
\* circular structure to JSON".  undefined and functions have no JSON form.
RECURSIVE stringify(_, _)
RECURSIVE stringifyProps(_, _)
stringifyProps(props, stack) ==
    IF props = <<>> THEN JsonObject(<<>>)
    ELSE LET head == stringify(Head(props).v, stack)
             rest == stringifyProps(Tail(props), stack)
         IN  IF head = Throws \/ rest = Throws THEN Throws
             ELSE IF head = Absent THEN rest
             ELSE JsonObject(<< [k |-> Head(props).k, v |-> head] >> \o rest.props)

stringify(value, stack) ==
    IF value.t = "object"
    THEN IF value.n \in stack THEN Throws
         ELSE stringifyProps(heap[value.n], stack \cup {value.n})
    ELSE IF value.t \in {"undefined", "function", "absent"} THEN Absent
    ELSE value

\* the replacer without seen.add(value) (line 498 left out)
replacerForgets(value, seen) ==
    IF value.t = "object"
    THEN IF value.n \in seen
         THEN [out |-> Str("[Circular]"), seen |-> seen]
         ELSE [out |-> value, seen |-> seen]
    ELSE IF value.t = "function"
    THEN [out |-> Str("[Function: " \o (IF value.s = "" THEN "anonymous" ELSE value.s) \o "]"),
          seen |-> seen]
    ELSE [out |-> value, seen |-> seen]

\* the replacer of sanitizeOutput: [out, seen]
replacer(value, seen) ==
    IF value.t = "object"
    THEN IF value.n \in seen
         THEN [out |-> Str("[Circular]"), seen |-> seen]
         ELSE [out |-> value, seen |-> seen \cup {value.n}]
    ELSE IF value.t = "function"
    THEN [out |-> Str("[Function: " \o (IF value.s = "" THEN "anonymous" ELSE value.s) \o "]"),
          seen |-> seen]
    ELSE [out |-> value, seen |-> seen]

\* JSON.parse(JSON.stringify(value, replacer)): [out, seen].  JSON.stringify
\* calls the replacer on each value before it serializes it, and keeps its
\* own stack of the objects being serialized: an object the replacer hands
\* back while it is on the stack is the TypeError, as without a replacer.
RECURSIVE stringifyWith(_, _, _)
RECURSIVE stringifyPropsWith(_, _, _)
stringifyPropsWith(props, seen, stack) ==
    IF props = <<>> THEN [out |-> JsonObject(<<>>), seen |-> seen]
    ELSE LET head == stringifyWith(Head(props).v, seen, stack)
         IN  IF head.out = Throws THEN head
             ELSE LET rest == stringifyPropsWith(Tail(props), head.seen, stack)
                  IN  IF rest.out = Throws THEN rest
                      ELSE IF head.out = Absent THEN rest
                      ELSE [out |-> JsonObject(<< [k |-> Head(props).k, v |-> head.out] >>
                                               \o rest.out.props),
                            seen |-> rest.seen]

stringifyWith(value, seen, stack) ==
    LET r == replacer(value, seen)
    IN  IF r.out.t = "object"
        THEN IF r.out.n \in stack THEN [out |-> Throws, seen |-> r.seen]
             ELSE stringifyPropsWith(heap[r.out.n], r.seen, stack \cup {r.out.n})
        ELSE IF r.out.t \in {"undefined", "absent"} THEN [out |-> Absent, seen |-> r.seen]
        ELSE r

sanitizeOutput(output) ==
    IF output.t = "object" THEN stringifyWith(output, {}, {}).out ELSE output

\* ------------------------------------------------------------------ errors
\* an Error object: its name and its message (a list of text parts)
Err(name, message) == [name |-> name, message |-> message]
NoError == Err("", <<>>)
TooManyCalls == Err("Error", <<"Too many calls">>)
MemoryLimit == Err("Error", <<"Memory limit exceeded">>)
\* vm's error when runInContext passes its timeout
TimedOut == Err("Error", <<"Script execution timed out">>)
\* an error thrown by the script body itself
ScriptError == Err("Error", <<"boom">>)
\* JSON.stringify's error on a circular structure
CircularError == Err("TypeError", <<"Converting circular structure to JSON">>)
\* fs.writeFile's error
IoError == Err("Error", <<"EIO">>)

\* checkBlacklist: the error it throws, NoError when it returns
RECURSIVE checkFrom(_, _)
checkFrom(k, text) ==
    IF k > Len(BLACKLIST) THEN NoError
    ELSE IF \E p \in 1..Len(text) : text[p] = BLACKLIST[k].symbol
    THEN Err("Error", << "Usage of '", BLACKLIST[k].symbol, "' is not allowed (",
                         BLACKLIST[k].risk, " risk)" >>)
    ELSE checkFrom(k + 1, text)

checkBlacklist(text) == checkFrom(1, text)

\* ---- checkBlacklist on script text as a sequence of characters
\* the length of a script text
MaxLen == 5
\* the characters of a script text: letters, a blank, a quote and a dollar
Chars == { "f", "s", "o", " ", "'", "$" }
\* the characters that \w matches
WordChars == { "f", "s", "o" }
\* the characters of a catalog symbol
chars(symbol) ==
    CASE symbol = "process" -> << "p", "r", "o", "c", "e", "s", "s" >>
      [] symbol = "require" -> << "r", "e", "q", "u", "i", "r", "e" >>
      [] symbol = "eval" -> << "e", "v", "a", "l" >>
      [] symbol = "fs" -> << "f", "s" >>
      [] symbol = "os" -> << "o", "s" >>
\* \b at position p of text, between text[p - 1] and text[p]: a word
\* character on exactly one side
wordBoundary(text, p) ==
    (p > 1 /\ text[p - 1] \in WordChars) # (p <= Len(text) /\ text[p] \in WordChars)
\* new RegExp(`\\b${key}\\b`).test(text) without the two \b
regexTestSubstring(key, text) ==
    \E p \in 1..(Len(text) - Len(key) + 1) :
        SubSeq(text, p, p + Len(key) - 1) = key
\* new RegExp(`\\b${key}\\b`, 'g').test(text), line 412-413
regexTest(key, text) ==
    \E p \in 1..(Len(text) - Len(key) + 1) :
        /\ wordBoundary(text, p)
        /\ SubSeq(text, p, p + Len(key) - 1) = key
        /\ wordBoundary(text, p + Len(key))
\* the loop of checkBlacklist over the catalog, from entry k on
RECURSIVE scanFrom(_, _)
scanFrom(k, text) ==
    IF k > Len(BLACKLIST) THEN NoError
    ELSE IF regexTest(chars(BLACKLIST[k].symbol), text)
    THEN Err("Error", << "Usage of '", BLACKLIST[k].symbol, "' is not allowed (",
                         BLACKLIST[k].risk, " risk)" >>)
    ELSE scanFrom(k + 1, text)
\* the words of a text: its runs of word characters, in order, each as
\* one string
RECURSIVE wordTokens(_, _)
wordTokens(text, word) ==
    IF text = << >> THEN (IF word = "" THEN << >> ELSE << word >>)
    ELSE IF Head(text) \in WordChars THEN wordTokens(Tail(text), word \o Head(text))
    ELSE (IF word = "" THEN << >> ELSE << word >>) \o wordTokens(Tail(text), "")

\* ------------------------------------------------------------------- state
VARIABLES
    pc,            \* where each invocation is
    scriptId,      \* its scriptId argument
    scriptContent, \* its scriptContent argument
    startTime,     \* its startTime
    now,           \* performance.now()
    logs,          \* this.logs: the array it refers to, named by the
                   \* invocation that created it (0: the field is not set)
    errors,        \* this.errors, likewise
    callCount,     \* this.callCount
    logArr,        \* the contents of the array each invocation created for logs
    errArr,        \* the contents of the array each invocation created for errors
    running,       \* the invocation whose script body is running, or 0
    data,          \* executionData / errorData of each invocation
    pending,       \* the JSON text being written for each invocation
    ret,           \* what the call gave its caller: a record or an exception
    scriptsDir,    \* scriptsDir: script id -> text
    resultsDir,    \* resultsDir: <<script id, start time>> -> record as written
    nCalls,        \* history: console calls the script of i has made
    emitted,       \* history: the messages the script of i has emitted
    bodyEnd,       \* history: how the script body of i ended
    finalValue,    \* history: the value of the final expression of i
    heapAtEnd,     \* history: heapUsed when the body of i ended
    ioFailed,      \* history: a file write of i failed
    history,       \* what the last getScriptHistory call returned
    sanIn,         \* the argument of the sanitizeOutput call
    sanOut         \* what the sanitizeOutput call returned

\* the state of ScriptEnvironment.executeScript and of its stores
scriptEnv == << pc, scriptId, scriptContent, startTime, now, logs, errors, callCount,
                logArr, errArr, running, data, pending, ret, scriptsDir, resultsDir,
                nCalls, emitted, bodyEnd, finalValue, heapAtEnd, ioFailed >>
\* SimpleDB: the files under dbPath and the calls in flight
VARIABLES
    docs,          \* data/<collection>/<id>.json: the document on file
    lockFile,      \* .locks/<collection>_<id>.lock
    dbOp,          \* the SimpleDB call each task is in
    dbPc,          \* where that call is
    retries,       \* retries of the acquireLock call it is in
    inner,         \* the call is in the this.read of update
    document,      \* create: document; update: document, then updated
    outcome,       \* what the call returns or throws once finally is through
    dbResult,      \* what the call returned or threw
    docAtCall,     \* history: the document on file when the call was made
    nOps,          \* history: the calls each task has made
    everCreated,   \* history: the ids a document was ever written for
    lastDone       \* history: the task whose call ended last, no call made since

db == << docs, lockFile, dbOp, dbPc, retries, inner, document, outcome, dbResult,
         docAtCall, nOps, everCreated, lastDone >>

\* single calls of checkBlacklist and of SimpleDB.find
VARIABLES
    scanIn,        \* the text checkBlacklist is called with
    scanOut,       \* the error it threw, NoError when it returned
    findIn,        \* the query find is called with, and what readdir listed
    findOut        \* how find ended, and the documents it returned

calls == << scanIn, scanOut, findIn, findOut >>

\* the state outside executeScript
outside == << heap, history, sanIn, sanOut, db, calls >>

vars == << scriptEnv, outside >>

\* executionData / errorData; logs and errors are references to arrays
Record(id, success, result, error, l, e) ==
    [scriptId |-> id, success |-> success, result |-> result, error |-> error,
     logs |-> l, errors |-> e]
NoRecord == Record(<<>>, FALSE, Absent, NoError, 0, 0)
NoPending == Record(<<>>, FALSE, Absent, NoError, <<>>, <<>>)

Returned(rec) == [kind |-> "record", rec |-> rec, error |-> NoError]
Rejected(error) == [kind |-> "exception", rec |-> NoRecord, error |-> error]
NoRet == [kind |-> "none", rec |-> NoRecord, error |-> NoError]

\* a file store: put one file
Put(dir, name, content) ==
    [f \in DOMAIN dir \cup {name} |-> IF f = name THEN content ELSE dir[f]]
EmptyDir == [f \in {} |-> 0]

\* no getScriptHistory call yet
NoHistory == [called |-> FALSE, scriptId |-> <<>>, files |-> <<>>, records |-> <<>>]
\* no sanitizeOutput call
NotSanitized == Val("none", 0, "")

\* ---------------------------------------------------------------- SimpleDB
\* the tasks that call SimpleDB
NumTasks == 2
Tasks == 1..NumTasks
\* the calls one task makes
MaxOps == 2
\* this.maxRetries (50 in the source)
maxRetries == 2
\* the document ids of the one collection
DocIds == { "d1" }
\* a counter field that is not set
NoCounter == -1
\* a document, or the updates of an update: its fields, "" and NoCounter
\* standing for a field it does not have
Doc(id, name, counter) == [id |-> id, name |-> name, counter |-> counter]
\* no document: no file, and the null that read returns
NoDoc == Doc("", "", NoCounter)
\* { ...document, ...updates, id }
merge(doc, updates, id) ==
    Doc(id,
        IF updates.name # "" THEN updates.name ELSE doc.name,
        IF updates.counter # NoCounter THEN updates.counter ELSE doc.counter)

\* the lock file: owner is the task that wrote it, stale says that
\* Date.now() - mtime > lockTimeout
Lock(owner) == [exists |-> TRUE, owner |-> owner, stale |-> FALSE]
NoLock == [exists |-> FALSE, owner |-> 0, stale |-> FALSE]

\* a call of SimpleDB
Op(name, id, arg) == [name |-> name, id |-> id, arg |-> arg]
NoOp == Op("none", "", NoDoc)
\* the calls made: create with a document, update with updates (of the
\* name, or of the counter and with an id of their own), read and delete
Ops ==
    UNION { { Op("create", id, Doc(id, d.name, d.counter)) : d \in { Doc("", "n", 0) } }
              \cup { Op("update", id, u) : u \in { Doc("", "m", NoCounter), Doc("zz", "", 1) } }
              \cup { Op("read", id, NoDoc), Op("delete", id, NoDoc) }
            : id \in DocIds }

\* how a call ends
ReturnedDoc(doc) == [kind |-> "returned", doc |-> doc, flag |-> FALSE, err |-> ""]
ReturnedBool(flag) == [kind |-> "returned", doc |-> NoDoc, flag |-> flag, err |-> ""]
Threw(err) == [kind |-> "threw", doc |-> NoDoc, flag |-> FALSE, err |-> err]
NoOutcome == [kind |-> "none", doc |-> NoDoc, flag |-> FALSE, err |-> ""]
AlreadyExists == "already exists"
NotFound == "not found"
LockFailed == "Failed to acquire lock"

InitTasks ==
    /\ dbOp = [t \in Tasks |-> NoOp]
    /\ dbPc = [t \in Tasks |-> "idle"]
    /\ retries = [t \in Tasks |-> 0]
    /\ inner = [t \in Tasks |-> FALSE]
    /\ document = [t \in Tasks |-> NoDoc]
    /\ outcome = [t \in Tasks |-> NoOutcome]
    /\ dbResult = [t \in Tasks |-> NoOutcome]
    /\ docAtCall = [t \in Tasks |-> NoDoc]
    /\ nOps = [t \in Tasks |-> 0]
    /\ lastDone = 0

\* an empty database, after init()
InitDB ==
    /\ InitTasks
    /\ lockFile = [id \in DocIds |-> NoLock]
    /\ docs = [id \in DocIds |-> NoDoc]
    /\ everCreated = {}

\* no checkBlacklist call of its own
NotScanned == Err("none", <<>>)
\* no find call
NoQuery == [query |-> << >>, files |-> << >>]
NotFoundYet == [kind |-> "none", docs |-> << >>]

InitCalls ==
    /\ scanIn = << >>
    /\ scanOut = NotScanned
    /\ findIn = NoQuery
    /\ findOut = NotFoundYet

InitEnv ==
    /\ pc = [i \in Inv |-> "idle"]
    /\ scriptId = [i \in Inv |-> <<>>]
    /\ scriptContent = [i \in Inv |-> <<>>]
    /\ startTime = [i \in Inv |-> 0]
    /\ now = 1
    /\ logs = 0
    /\ errors = 0
    /\ callCount = 0
    /\ logArr = [i \in Inv |-> <<>>]
    /\ errArr = [i \in Inv |-> <<>>]
    /\ running = 0
    /\ data = [i \in Inv |-> NoRecord]
    /\ pending = [i \in Inv |-> NoPending]
    /\ ret = [i \in Inv |-> NoRet]
    /\ scriptsDir = EmptyDir
    /\ resultsDir = EmptyDir
    /\ nCalls = [i \in Inv |-> 0]
    /\ emitted = [i \in Inv |-> [logs |-> <<>>, errors |-> <<>>]]
    /\ bodyEnd = [i \in Inv |-> "none"]
    /\ finalValue = [i \in Inv |-> Absent]
    /\ heapAtEnd = [i \in Inv |-> 0]
    /\ ioFailed = [i \in Inv |-> FALSE]

Init ==
    /\ InitEnv
    /\ heap = ObjHeap
    /\ history = NoHistory
    /\ sanIn = Absent
    /\ sanOut = NotSanitized
    /\ InitDB
    /\ InitCalls

\* monitorMemoryUsage: does it throw when heapUsed is used
monitorMemoryUsage(used) == used > maxMemory

\* JSON.stringify of a record: the record as it is on file, or Throws
stringifyRecord(rec) ==
    LET r == stringify(rec.result, {})
    IN  IF r = Throws THEN Throws
        ELSE Record(rec.scriptId, rec.success, r, rec.error,
                    logArr[rec.logs], errArr[rec.errors])

\* the catch block of executeScript, entered by invocation i with error
\* while heapUsed is used: monitorMemoryUsage, errorData, JSON.stringify,
\* up to the await of fs.writeFile
catchBlock(i, error, used) ==
    IF monitorMemoryUsage(used)
    THEN /\ pc' = [pc EXCEPT ![i] = "threw"]
         /\ ret' = [ret EXCEPT ![i] = Rejected(MemoryLimit)]
         /\ UNCHANGED << data, pending >>
    ELSE LET errorData == Record(scriptId[i], FALSE, Absent, error, logs, errors)
         IN  /\ pc' = [pc EXCEPT ![i] = "writeError"]
             /\ data' = [data EXCEPT ![i] = errorData]
             /\ pending' = [pending EXCEPT ![i] = stringifyRecord(errorData)]
             /\ ret' = ret

\* what stays as it is when the script body makes no console call
histCalls == << nCalls, emitted >>
histEnd == << bodyEnd, finalValue, heapAtEnd >>
args == << scriptId, scriptContent, startTime, now >>

\* ----------------------------------------------------------------- actions
\* Start without checkBlacklist before the try block (line 433 left out)
StartWithoutCheck(i, text, id) ==
    /\ pc[i] = "idle"
    /\ \A j \in 1..(i - 1) : pc[j] # "idle"
    /\ running = 0
    /\ scriptId' = [scriptId EXCEPT ![i] = id]
    /\ scriptContent' = [scriptContent EXCEPT ![i] = text]
    /\ logs' = i
    /\ errors' = i
    /\ callCount' = 0
    /\ startTime' = [startTime EXCEPT ![i] = now]
    /\ now' = now + 1
    /\ pc' = [pc EXCEPT ![i] = "writeScript"]
    /\ ret' = ret
    /\ UNCHANGED << logArr, errArr, running, data, pending, scriptsDir, resultsDir,
                    histCalls, histEnd, ioFailed >>
    /\ UNCHANGED outside

\* Start with a performance.now() that gives every call the same time
StartClockStands(i, text, id) ==
    /\ pc[i] = "idle"
    /\ \A j \in 1..(i - 1) : pc[j] # "idle"
    /\ running = 0
    /\ scriptId' = [scriptId EXCEPT ![i] = id]
    /\ scriptContent' = [scriptContent EXCEPT ![i] = text]
    /\ logs' = i
    /\ errors' = i
    /\ callCount' = 0
    /\ startTime' = [startTime EXCEPT ![i] = now]
    /\ now' = now
    /\ IF checkBlacklist(text) # NoError
       THEN /\ pc' = [pc EXCEPT ![i] = "threw"]
            /\ ret' = [ret EXCEPT ![i] = Rejected(checkBlacklist(text))]
       ELSE /\ pc' = [pc EXCEPT ![i] = "writeScript"]
            /\ ret' = ret
    /\ UNCHANGED << logArr, errArr, running, data, pending, scriptsDir, resultsDir,
                    histCalls, histEnd, ioFailed >>
    /\ UNCHANGED outside

\* Start without the reset of this.callCount (line 429 left out)
StartKeepsCount(i, text, id) ==
    /\ pc[i] = "idle"
    /\ \A j \in 1..(i - 1) : pc[j] # "idle"
    /\ running = 0
    /\ scriptId' = [scriptId EXCEPT ![i] = id]
    /\ scriptContent' = [scriptContent EXCEPT ![i] = text]
    /\ logs' = i
    /\ errors' = i
    /\ callCount' = callCount
    /\ startTime' = [startTime EXCEPT ![i] = now]
    /\ now' = now + 1
    /\ IF checkBlacklist(text) # NoError
       THEN /\ pc' = [pc EXCEPT ![i] = "threw"]
            /\ ret' = [ret EXCEPT ![i] = Rejected(checkBlacklist(text))]
       ELSE /\ pc' = [pc EXCEPT ![i] = "writeScript"]
            /\ ret' = ret
    /\ UNCHANGED << logArr, errArr, running, data, pending, scriptsDir, resultsDir,
                    histCalls, histEnd, ioFailed >>
    /\ UNCHANGED outside

\* executeScript(text, id) is called: lines 427-433, up to the await of the
\* script's fs.writeFile, or to the throw of checkBlacklist.  Invocations
\* are numbered in the order of their calls, and performance.now() gives
\* each call a later startTime than the call before.
Start(i, text, id) ==
    /\ pc[i] = "idle"
    /\ \A j \in 1..(i - 1) : pc[j] # "idle"
    /\ running = 0
    /\ scriptId' = [scriptId EXCEPT ![i] = id]
    /\ scriptContent' = [scriptContent EXCEPT ![i] = text]
    /\ logs' = i
    /\ errors' = i
    /\ callCount' = 0
    /\ startTime' = [startTime EXCEPT ![i] = now]
    /\ now' = now + 1
    /\ IF checkBlacklist(text) # NoError
       THEN /\ pc' = [pc EXCEPT ![i] = "threw"]
            /\ ret' = [ret EXCEPT ![i] = Rejected(checkBlacklist(text))]
       ELSE /\ pc' = [pc EXCEPT ![i] = "writeScript"]
            /\ ret' = ret
    /\ UNCHANGED << logArr, errArr, running, data, pending, scriptsDir, resultsDir,
                    histCalls, histEnd, ioFailed >>
    /\ UNCHANGED outside

\* the script's fs.writeFile succeeds: createContext, new vm.Script, and
\* runInContext enters the script body
SaveScript(i) ==
    /\ pc[i] = "writeScript"
    /\ running = 0
    /\ scriptsDir' = Put(scriptsDir, scriptId[i], scriptContent[i])
    /\ pc' = [pc EXCEPT ![i] = "running"]
    /\ running' = i
    /\ UNCHANGED << args, logs, errors, callCount, logArr, errArr, data, pending,
                    ret, resultsDir, histCalls, histEnd, ioFailed >>
    /\ UNCHANGED outside

\* the script's fs.writeFile fails: the catch block
SaveScriptFails(i) ==
    /\ pc[i] = "writeScript"
    /\ running = 0
    /\ ioFailed' = [ioFailed EXCEPT ![i] = TRUE]
    /\ \E used \in HeapValues : catchBlock(i, IoError, used)
    /\ UNCHANGED << args, logs, errors, callCount, logArr, errArr, running,
                    scriptsDir, resultsDir, histCalls, histEnd >>
    /\ UNCHANGED outside

\* the script body ends by throwing error: the catch block
bodyThrows(i, error, how) ==
    /\ running' = 0
    /\ bodyEnd' = [bodyEnd EXCEPT ![i] = how]
    /\ \E used \in HeapValues :
         /\ heapAtEnd' = [heapAtEnd EXCEPT ![i] = used]
         /\ catchBlock(i, error, used)

\* the script body calls console.log; the script does not catch the error
\* the call may throw
ConsoleLog(i) ==
    /\ running = i
    /\ nCalls[i] < MaxScriptCalls
    /\ nCalls' = [nCalls EXCEPT ![i] = @ + 1]
    /\ callCount' = callCount + 1
    /\ IF callCount > maxCalls
       THEN /\ bodyThrows(i, TooManyCalls, "callLimit")
            /\ UNCHANGED << logArr, emitted, finalValue >>
       ELSE /\ logArr' = [logArr EXCEPT ![logs] = Append(@, << i, nCalls[i] + 1 >>)]
            /\ emitted' = [emitted EXCEPT ![i].logs = Append(@, << i, nCalls[i] + 1 >>)]
            /\ UNCHANGED << pc, running, data, pending, ret, histEnd >>
    /\ UNCHANGED << args, logs, errors, errArr, scriptsDir, resultsDir, ioFailed >>
    /\ UNCHANGED outside

\* the script body calls console.error; the script does not catch the error
\* the call may throw
ConsoleError(i) ==
    /\ running = i
    /\ nCalls[i] < MaxScriptCalls
    /\ nCalls' = [nCalls EXCEPT ![i] = @ + 1]
    /\ callCount' = callCount + 1
    /\ IF callCount > maxCalls
       THEN /\ bodyThrows(i, TooManyCalls, "callLimit")
            /\ UNCHANGED << errArr, emitted, finalValue >>
       ELSE /\ errArr' = [errArr EXCEPT ![errors] = Append(@, << i, nCalls[i] + 1 >>)]
            /\ emitted' = [emitted EXCEPT ![i].errors = Append(@, << i, nCalls[i] + 1 >>)]
            /\ UNCHANGED << pc, running, data, pending, ret, histEnd >>
    /\ UNCHANGED << args, logs, errors, logArr, scriptsDir, resultsDir, ioFailed >>
    /\ UNCHANGED outside

\* the script body throws an error of its own (or new vm.Script throws on
\* its syntax)
ScriptThrows(i) ==
    /\ running = i
    /\ bodyThrows(i, ScriptError, "threw")
    /\ UNCHANGED << args, logs, errors, callCount, logArr, errArr, scriptsDir,
                    resultsDir, histCalls, finalValue, ioFailed >>
    /\ UNCHANGED outside

\* the script body is still running at the timeout: runInContext throws
ScriptTimesOut(i) ==
    /\ running = i
    /\ bodyThrows(i, TimedOut, "timeout")
    /\ UNCHANGED << args, logs, errors, callCount, logArr, errArr, scriptsDir,
                    resultsDir, histCalls, finalValue, ioFailed >>
    /\ UNCHANGED outside

\* the script body runs to its end with result as the value of its final
\* expression: executionData and JSON.stringify, lines 448-462, up to the
\* await of fs.writeFile; JSON.stringify may throw into the catch block
ScriptCompletes(i, result) ==
    /\ running = i
    /\ running' = 0
    /\ bodyEnd' = [bodyEnd EXCEPT ![i] = "completed"]
    /\ finalValue' = [finalValue EXCEPT ![i] = result]
    /\ \E used \in HeapValues :
         /\ heapAtEnd' = [heapAtEnd EXCEPT ![i] = used]
         /\ LET executionData == Record(scriptId[i], TRUE, result, NoError, logs, errors)
            IN  IF stringifyRecord(executionData) = Throws
                THEN catchBlock(i, CircularError, used)
                ELSE /\ pc' = [pc EXCEPT ![i] = "writeResult"]
                     /\ data' = [data EXCEPT ![i] = executionData]
                     /\ pending' = [pending EXCEPT ![i] = stringifyRecord(executionData)]
                     /\ ret' = ret
    /\ UNCHANGED << args, logs, errors, callCount, logArr, errArr, scriptsDir,
                    resultsDir, histCalls, ioFailed >>
    /\ UNCHANGED outside

\* a record's fs.writeFile succeeds: executeScript returns the record
SaveResults(i) ==
    /\ pc[i] \in {"writeResult", "writeError"}
    /\ running = 0
    /\ resultsDir' = Put(resultsDir, << scriptId[i], startTime[i] >>, pending[i])
    /\ pc' = [pc EXCEPT ![i] = "returned"]
    /\ ret' = [ret EXCEPT ![i] = Returned(data[i])]
    /\ UNCHANGED << args, logs, errors, callCount, logArr, errArr, running, data,
                    pending, scriptsDir, histCalls, histEnd, ioFailed >>
    /\ UNCHANGED outside

\* fs.writeFile of executionData fails: the catch block
SaveResultsFails(i) ==
    /\ pc[i] = "writeResult"
    /\ running = 0
    /\ ioFailed' = [ioFailed EXCEPT ![i] = TRUE]
    /\ \E used \in HeapValues : catchBlock(i, IoError, used)
    /\ UNCHANGED << args, logs, errors, callCount, logArr, errArr, running,
                    scriptsDir, resultsDir, histCalls, histEnd >>
    /\ UNCHANGED outside

\* fs.writeFile of errorData fails: executeScript rejects
SaveErrorFails(i) ==
    /\ pc[i] = "writeError"
    /\ running = 0
    /\ ioFailed' = [ioFailed EXCEPT ![i] = TRUE]
    /\ pc' = [pc EXCEPT ![i] = "threw"]
    /\ ret' = [ret EXCEPT ![i] = Rejected(IoError)]
    /\ UNCHANGED << args, logs, errors, callCount, logArr, errArr, running, data,
                    pending, scriptsDir, resultsDir, histCalls, histEnd >>
    /\ UNCHANGED outside

Next ==
    \E i \in Inv :
        \/ \E text \in ScriptContents, id \in ScriptIds : Start(i, text, id)
        \/ SaveScript(i)
        \/ SaveScriptFails(i)
        \/ ConsoleLog(i)
        \/ ConsoleError(i)
        \/ ScriptThrows(i)
        \/ ScriptTimesOut(i)
        \/ \E result \in FinalValues : ScriptCompletes(i, result)
        \/ SaveResults(i)
        \/ SaveResultsFails(i)
        \/ SaveErrorFails(i)

Spec == Init /\ [][Next]_vars

\* executeScript is called while no other invocation is in flight
StartAlone(i, text, id) ==
    /\ \A j \in Inv : pc[j] \in {"idle", "returned", "threw"}
    /\ Start(i, text, id)

\* the invocations one after the other, none overlapping another
NextSeq ==
    \E i \in Inv :
        \/ \E text \in ScriptContents, id \in ScriptIds : StartAlone(i, text, id)
        \/ SaveScript(i)
        \/ SaveScriptFails(i)
        \/ ConsoleLog(i)
        \/ ConsoleError(i)
        \/ ScriptThrows(i)
        \/ ScriptTimesOut(i)
        \/ \E result \in FinalValues : ScriptCompletes(i, result)
        \/ SaveResults(i)
        \/ SaveResultsFails(i)
        \/ SaveErrorFails(i)

SpecSeq == Init /\ [][NextSeq]_vars

\* awaited invocations of scripts that pass checkBlacklist, of two texts
NextClean ==
    \E i \in Inv :
        \/ \E text \in { <<"x", "y">>, <<"x", "z">> }, id \in ScriptIds : StartAlone(i, text, id)
        \/ SaveScript(i)
        \/ SaveScriptFails(i)
        \/ ConsoleLog(i)
        \/ ConsoleError(i)
        \/ ScriptThrows(i)
        \/ ScriptTimesOut(i)
        \/ \E result \in FinalValues : ScriptCompletes(i, result)
        \/ SaveResults(i)
        \/ SaveResultsFails(i)
        \/ SaveErrorFails(i)

SpecClean == Init /\ [][NextClean]_vars

\* ------------------------------------------------------- getScriptHistory
\* the name of a file of resultsDir: `${scriptId}_${startTime}.json`, the
\* start time as its decimal text
fileName(f) ==
    LET digit(d) == << "0", "1", "2", "3", "4", "5", "6", "7", "8", "9" >>[d + 1]
        timeText(n) ==
            IF n < 10 THEN << digit(n) >> ELSE << digit(n \div 10), digit(n % 10) >>
    IN  f[1] \o << "_" >> \o timeText(f[2]) \o << ".", "j", "s", "o", "n" >>
startsWith(text, prefix) ==
    Len(prefix) <= Len(text) /\ SubSeq(text, 1, Len(prefix)) = prefix
endsWith(text, suffix) ==
    /\ Len(suffix) <= Len(text)
    /\ SubSeq(text, Len(text) - Len(suffix) + 1, Len(text)) = suffix
\* the orders in which fs.readdir may list the files of a directory
readdir(dir) ==
    { files \in [1..Cardinality(DOMAIN dir) -> DOMAIN dir] :
        \A m, n \in DOMAIN files : m # n => files[m] # files[n] }
\* the loop of getScriptHistory over files: the files it reads, in order
RECURSIVE historyFiles(_, _)
historyFiles(id, files) ==
    IF files = <<>> THEN <<>>
    ELSE IF /\ startsWith(fileName(Head(files)), id)
            /\ endsWith(fileName(Head(files)), << ".", "j", "s", "o", "n" >>)
         THEN << Head(files) >> \o historyFiles(id, Tail(files))
         ELSE historyFiles(id, Tail(files))

\* getScriptHistory(id) is called when no executeScript call is in flight,
\* and fs.readdir lists the directory as files: it returns the records of
\* the files its loop reads
getScriptHistory(id, files) ==
    /\ \A i \in Inv : pc[i] \in {"idle", "returned", "threw"}
    /\ history' =
          LET read == historyFiles(id, files)
          IN  [called |-> TRUE, scriptId |-> id, files |-> read,
               records |-> [n \in DOMAIN read |-> resultsDir[read[n]]]]
    /\ UNCHANGED << scriptEnv, heap, sanIn, sanOut, db, calls >>

\* awaited executeScript calls and getScriptHistory calls
NextHist ==
    \/ NextSeq
    \/ \E id \in ScriptIds, files \in readdir(resultsDir) : getScriptHistory(id, files)

SpecHist == Init /\ [][NextHist]_vars

\* ---------------------------------------------------------- sanitizeOutput
\* the number of objects of a graph handed to sanitizeOutput
MaxObjects == 2
\* the property names of its objects, in insertion order
Keys == << "a", "b" >>
\* the objects: the first n of Keys, each with a value, which is a number,
\* a function, undefined or an object
Objects ==
    LET PropValues == { Num(15), Func(""), Undefined } \cup { Ref(o) : o \in 1..MaxObjects }
    IN  UNION { { [m \in 1..n |-> [k |-> Keys[m], v |-> vs[m]]] : vs \in [1..n -> PropValues] }
                : n \in 0..Len(Keys) }

\* the heap holds an object graph, cyclic ones among them
InitSan ==
    /\ InitEnv
    /\ heap \in [1..MaxObjects -> Objects]
    /\ history = NoHistory
    /\ sanIn = Absent
    /\ sanOut = NotSanitized
    /\ InitDB
    /\ InitCalls

\* one call sanitizeOutput(output)
Sanitize(output) ==
    /\ sanIn = Absent
    /\ sanIn' = output
    /\ sanOut' = sanitizeOutput(output)
    /\ UNCHANGED << scriptEnv, heap, history, db, calls >>

\* sanitizeOutput is called with an object of the graph, a number, a string,
\* undefined or a function
NextSan ==
    \E output \in { Ref(o) : o \in 1..MaxObjects }
                      \cup { Num(15), Str("s"), Undefined, Func("f"), Func("") } :
        Sanitize(output)

SpecSan == InitSan /\ [][NextSan]_vars

\* ------------------------------------------------------------ checkBlacklist
\* checkBlacklist is about to be called with a script text of up to MaxLen
\* characters
InitScan ==
    /\ InitEnv
    /\ heap = ObjHeap
    /\ history = NoHistory
    /\ sanIn = Absent
    /\ sanOut = NotSanitized
    /\ InitDB
    /\ scanIn \in UNION { [1..n -> Chars] : n \in 0..MaxLen }
    /\ scanOut = NotScanned
    /\ findIn = NoQuery
    /\ findOut = NotFoundYet

\* one call checkBlacklist(scanIn)
Scan ==
    /\ scanOut = NotScanned
    /\ scanOut' = scanFrom(1, scanIn)
    /\ UNCHANGED << scriptEnv, heap, history, sanIn, sanOut, db, scanIn, findIn, findOut >>

SpecScan == InitScan /\ [][Scan]_vars

\* --------------------------------------------------------- SimpleDB actions
notDb == << scriptEnv, heap, history, sanIn, sanOut, calls >>
lockOf(t) == lockFile[dbOp[t].id]

\* task t calls op: the call runs up to its first await, the fs.writeFile
\* of acquireLock (create: document.id = id before)
StartOp(t, op) ==
    /\ dbPc[t] \in {"idle", "done"}
    /\ dbOp' = [dbOp EXCEPT ![t] = op]
    /\ dbPc' = [dbPc EXCEPT ![t] = "tryLock"]
    /\ retries' = [retries EXCEPT ![t] = 0]
    /\ inner' = [inner EXCEPT ![t] = FALSE]
    /\ document' = [document EXCEPT ![t] = op.arg]
    /\ outcome' = [outcome EXCEPT ![t] = NoOutcome]
    /\ dbResult' = [dbResult EXCEPT ![t] = NoOutcome]
    /\ docAtCall' = [docAtCall EXCEPT ![t] = docs[op.id]]
    /\ nOps' = [nOps EXCEPT ![t] = @ + 1]
    /\ lastDone' = 0
    /\ UNCHANGED << docs, lockFile, everCreated, notDb >>

\* the call of t ends with out
finish(t, out) ==
    /\ dbPc' = [dbPc EXCEPT ![t] = "done"]
    /\ dbResult' = [dbResult EXCEPT ![t] = out]
    /\ lastDone' = t

\* acquireLock, line 36: fs.writeFile(lockFile, ..., { flag: 'wx' }).  With
\* the lock file written acquireLock returns, and the call goes on to its
\* next await: update calls this.read, which calls acquireLock again.
TryLock(t) ==
    /\ dbPc[t] = "tryLock"
    /\ IF lockOf(t).exists
       THEN /\ dbPc' = [dbPc EXCEPT ![t] = "stat"]
            /\ UNCHANGED << lockFile, retries, inner >>
       ELSE /\ lockFile' = [lockFile EXCEPT ![dbOp[t].id] = Lock(t)]
            /\ IF dbOp[t].name = "update" /\ ~inner[t]
               THEN /\ inner' = [inner EXCEPT ![t] = TRUE]
                    /\ retries' = [retries EXCEPT ![t] = 0]
                    /\ dbPc' = dbPc
               ELSE /\ dbPc' = [dbPc EXCEPT ![t] =
                          IF inner[t] \/ dbOp[t].name = "read" THEN "readFile"
                          ELSE IF dbOp[t].name = "create" THEN "access"
                          ELSE "unlinkDoc"]
                    /\ UNCHANGED << retries, inner >>
    /\ UNCHANGED << docs, dbOp, document, outcome, dbResult, docAtCall, nOps,
                    everCreated, lastDone, notDb >>

\* an acquireLock that does not count the attempt that found a fresh lock
StatLockUncounted(t) ==
    /\ dbPc[t] = "stat"
    /\ dbPc' = [dbPc EXCEPT ![t] =
          IF ~lockOf(t).exists THEN "tryLock"
          ELSE IF lockOf(t).stale THEN "unlinkLock"
          ELSE "sleep"]
    /\ UNCHANGED << docs, lockFile, dbOp, retries, inner, document, outcome,
                    dbResult, docAtCall, nOps, everCreated, lastDone, notDb >>

\* acquireLock, lines 39-52, after EEXIST: fs.stat(lockFile); a stale lock
\* is to be unlinked, a lock that is gone is tried again, and otherwise
\* retries++ and the sleep of retryDelay
StatLock(t) ==
    /\ dbPc[t] = "stat"
    /\ IF ~lockOf(t).exists
       THEN /\ dbPc' = [dbPc EXCEPT ![t] = "tryLock"]
            /\ retries' = retries
       ELSE IF lockOf(t).stale
       THEN /\ dbPc' = [dbPc EXCEPT ![t] = "unlinkLock"]
            /\ retries' = retries
       ELSE /\ dbPc' = [dbPc EXCEPT ![t] = "sleep"]
            /\ retries' = [retries EXCEPT ![t] = @ + 1]
    /\ UNCHANGED << docs, lockFile, dbOp, inner, document, outcome, dbResult,
                    docAtCall, nOps, everCreated, lastDone, notDb >>

\* acquireLock, lines 43-44 and 47: fs.unlink(lockFile) of the lock seen
\* stale, whatever the file now is; ENOENT is tried again as well
UnlinkStale(t) ==
    /\ dbPc[t] = "unlinkLock"
    /\ lockFile' = [lockFile EXCEPT ![dbOp[t].id] = NoLock]
    /\ dbPc' = [dbPc EXCEPT ![t] = "tryLock"]
    /\ UNCHANGED << docs, dbOp, retries, inner, document, outcome, dbResult,
                    docAtCall, nOps, everCreated, lastDone, notDb >>

\* acquireLock, lines 52, 34 and 55: the sleep ends; past maxRetries
\* acquireLock throws.  create, read, update and delete call it outside
\* their try; the this.read of update calls it inside the try of update.
Sleep(t) ==
    /\ dbPc[t] = "sleep"
    /\ IF retries[t] < maxRetries
       THEN /\ dbPc' = [dbPc EXCEPT ![t] = "tryLock"]
            /\ UNCHANGED << inner, outcome, dbResult, lastDone >>
       ELSE IF inner[t]
       THEN /\ dbPc' = [dbPc EXCEPT ![t] = "release"]
            /\ inner' = [inner EXCEPT ![t] = FALSE]
            /\ outcome' = [outcome EXCEPT ![t] = Threw(LockFailed)]
            /\ UNCHANGED << dbResult, lastDone >>
       ELSE /\ finish(t, Threw(LockFailed))
            /\ UNCHANGED << inner, outcome >>
    /\ UNCHANGED << docs, lockFile, dbOp, retries, document, docAtCall, nOps,
                    everCreated, notDb >>

\* create, lines 91-96: fs.access(docPath)
Access(t) ==
    /\ dbPc[t] = "access"
    /\ IF docs[dbOp[t].id] # NoDoc
       THEN /\ dbPc' = [dbPc EXCEPT ![t] = "release"]
            /\ outcome' = [outcome EXCEPT ![t] = Threw(AlreadyExists)]
       ELSE /\ dbPc' = [dbPc EXCEPT ![t] = "write"]
            /\ outcome' = outcome
    /\ UNCHANGED << docs, lockFile, dbOp, retries, inner, document, dbResult,
                    docAtCall, nOps, everCreated, lastDone, notDb >>

\* create, line 98, and update, lines 133-136: fs.writeFile of the document
WriteDoc(t) ==
    /\ dbPc[t] = "write"
    /\ docs' = [docs EXCEPT ![dbOp[t].id] = document[t]]
    /\ everCreated' = everCreated \cup {dbOp[t].id}
    /\ outcome' = [outcome EXCEPT ![t] = ReturnedDoc(document[t])]
    /\ dbPc' = [dbPc EXCEPT ![t] = "release"]
    /\ UNCHANGED << lockFile, dbOp, retries, inner, document, dbResult, docAtCall,
                    nOps, lastDone, notDb >>

\* read, lines 111-117: fs.readFile(docPath); ENOENT is null
ReadFile(t) ==
    /\ dbPc[t] = "readFile"
    /\ IF inner[t]
       THEN /\ document' = [document EXCEPT ![t] = docs[dbOp[t].id]]
            /\ outcome' = outcome
       ELSE /\ outcome' = [outcome EXCEPT ![t] = ReturnedDoc(docs[dbOp[t].id])]
            /\ document' = document
    /\ dbPc' = [dbPc EXCEPT ![t] = "release"]
    /\ UNCHANGED << docs, lockFile, dbOp, retries, inner, dbResult, docAtCall,
                    nOps, everCreated, lastDone, notDb >>

\* delete returning true also on ENOENT
UnlinkDocAlwaysTrue(t) ==
    /\ dbPc[t] = "unlinkDoc"
    /\ docs' = [docs EXCEPT ![dbOp[t].id] = NoDoc]
    /\ outcome' = [outcome EXCEPT ![t] = ReturnedBool(TRUE)]
    /\ dbPc' = [dbPc EXCEPT ![t] = "release"]
    /\ UNCHANGED << lockFile, dbOp, retries, inner, document, dbResult, docAtCall,
                    nOps, everCreated, lastDone, notDb >>

\* delete, lines 148-154: fs.unlink(docPath); true, and false on ENOENT
UnlinkDoc(t) ==
    /\ dbPc[t] = "unlinkDoc"
    /\ docs' = [docs EXCEPT ![dbOp[t].id] = NoDoc]
    /\ outcome' = [outcome EXCEPT ![t] = ReturnedBool(docs[dbOp[t].id] # NoDoc)]
    /\ dbPc' = [dbPc EXCEPT ![t] = "release"]
    /\ UNCHANGED << lockFile, dbOp, retries, inner, document, dbResult, docAtCall,
                    nOps, everCreated, lastDone, notDb >>

\* releaseLock in a finally block: fs.unlink(lockFile), of whatever file
\* has that name, ENOENT ignored.  After the finally of its this.read,
\* update goes on (lines 128-133) to its fs.writeFile or to its own finally.
Release(t) ==
    /\ dbPc[t] = "release"
    /\ lockFile' = [lockFile EXCEPT ![dbOp[t].id] = NoLock]
    /\ IF inner[t]
       THEN /\ inner' = [inner EXCEPT ![t] = FALSE]
            /\ IF document[t] = NoDoc
               THEN /\ outcome' = [outcome EXCEPT ![t] = Threw(NotFound)]
                    /\ UNCHANGED << dbPc, document >>
               ELSE /\ document' = [document EXCEPT ![t] =
                                       merge(@, dbOp[t].arg, dbOp[t].id)]
                    /\ dbPc' = [dbPc EXCEPT ![t] = "write"]
                    /\ outcome' = outcome
            /\ UNCHANGED << dbResult, lastDone >>
       ELSE /\ finish(t, outcome[t])
            /\ UNCHANGED << inner, document, outcome >>
    /\ UNCHANGED << docs, dbOp, retries, docAtCall, nOps, everCreated, notDb >>

\* time passes: the lock file of id gets older than lockTimeout
Age(id) ==
    /\ lockFile[id].exists
    /\ ~lockFile[id].stale
    /\ lockFile' = [lockFile EXCEPT ![id].stale = TRUE]
    /\ UNCHANGED << docs, dbOp, dbPc, retries, inner, document, outcome, dbResult,
                    docAtCall, nOps, everCreated, lastDone, notDb >>

\* the steps of acquireLock and releaseLock of the calls in flight
LockSteps ==
    \/ \E t \in Tasks :
          \/ TryLock(t)
          \/ StatLock(t)
          \/ UnlinkStale(t)
          \/ Sleep(t)
          \/ Release(t)
    \/ \E id \in DocIds : Age(id)

\* the steps of the calls in flight
Steps ==
    \/ LockSteps
    \/ \E t \in Tasks :
          \/ Access(t)
          \/ WriteDoc(t)
          \/ ReadFile(t)
          \/ UnlinkDoc(t)

NextDB ==
    \/ \E t \in Tasks, op \in Ops : nOps[t] < MaxOps /\ StartOp(t, op)
    \/ Steps

SpecDB == Init /\ [][NextDB]_vars

\* the next step of the call of task t: the continuation of its pending
\* await, which the event loop runs once the file operation or the timer
\* of the await has completed
step(t) ==
    \/ TryLock(t)
    \/ StatLock(t)
    \/ UnlinkStale(t)
    \/ Sleep(t)
    \/ Access(t)
    \/ WriteDoc(t)
    \/ ReadFile(t)
    \/ UnlinkDoc(t)
    \/ Release(t)
\* a finite set of competing calls: the first task makes up to MaxOps calls
\* one after the other, every other task one call, all of them free to
\* overlap
NextCompeting ==
    \/ \E t \in Tasks, op \in Ops :
          nOps[t] < (IF t = 1 THEN MaxOps ELSE 1) /\ StartOp(t, op)
    \/ Steps

\* fair scheduling: no call in flight is left waiting for ever for its next
\* step.  Nothing obliges a task to make a call, nor a lock file to age.
SpecCompeting == Init /\ [][NextCompeting]_vars /\ \A t \in Tasks : WF_vars(step(t))

\* a task makes a call and awaits it: no other call is in flight
NextDBSeq ==
    \/ \E t \in Tasks, op \in Ops :
          /\ nOps[t] < MaxOps
          /\ \A u \in Tasks : dbPc[u] \in {"idle", "done"}
          /\ StartOp(t, op)
    \/ Steps

SpecDBSeq == Init /\ [][NextDBSeq]_vars

\* testConcurrentAccess: the document with counter 0 is on file, and every
\* task reads it and then updates it with counter: current.counter + 1
InitConc ==
    /\ InitEnv
    /\ heap = ObjHeap
    /\ history = NoHistory
    /\ sanIn = Absent
    /\ sanOut = NotSanitized
    /\ InitCalls
    /\ InitTasks
    /\ lockFile = [id \in DocIds |-> NoLock]
    /\ docs = [id \in DocIds |-> Doc(id, "n", 0)]
    /\ everCreated = DocIds

CallRead(t, id) ==
    /\ nOps[t] = 0
    /\ StartOp(t, Op("read", id, NoDoc))

CallUpdate(t) ==
    /\ nOps[t] = 1
    /\ dbPc[t] = "done"
    /\ dbResult[t].kind = "returned"
    /\ StartOp(t, Op("update", dbOp[t].id, Doc("", "", dbResult[t].doc.counter + 1)))

NextConc ==
    \/ \E t \in Tasks, id \in DocIds : CallRead(t, id)
    \/ \E t \in Tasks : CallUpdate(t)
    \/ LockSteps
    \/ \E t \in Tasks : ReadFile(t) \/ WriteDoc(t)

SpecConc == InitConc /\ [][NextConc]_vars

\* a lock file that a process that is gone left behind, older than lockTimeout
LeftLock == [exists |-> TRUE, owner |-> 0, stale |-> TRUE]

\* every task calls create once, all with the same id; each with a document
\* of its own.  The lock directory may hold a lock file left behind.
InitCreate ==
    /\ InitEnv
    /\ heap = ObjHeap
    /\ history = NoHistory
    /\ sanIn = Absent
    /\ sanOut = NotSanitized
    /\ InitCalls
    /\ InitTasks
    /\ lockFile \in [DocIds -> {NoLock, LeftLock}]
    /\ docs = [id \in DocIds |-> NoDoc]
    /\ everCreated = {}

CallCreate(t, id) ==
    /\ nOps[t] = 0
    /\ StartOp(t, Op("create", id, Doc(id, "n", t)))

NextCreate ==
    \/ \E t \in Tasks, id \in DocIds : CallCreate(t, id)
    \/ LockSteps
    \/ \E t \in Tasks : Access(t) \/ WriteDoc(t)

SpecCreate == InitCreate /\ [][NextCreate]_vars

\* ------------------------------------------------------- what the claims use
finished(i) == pc[i] \in {"returned", "threw"}
\* the invocation gave its caller a record with success = false
failedRecord(i) == ret[i].kind = "record" /\ ~ret[i].rec.success
\* the name of the invocation's record in resultsDir
resultPath(i) == << scriptId[i], startTime[i] >>
\* the five failure states of an invocation
REJECTED(i) == pc[i] # "idle" /\ checkBlacklist(scriptContent[i]) # NoError
TIMED_OUT(i) == bodyEnd[i] = "timeout"
CALL_LIMIT(i) == bodyEnd[i] = "callLimit"
FAULTED(i) == bodyEnd[i] = "threw"
MEM_LIMIT(i) == bodyEnd[i] # "none" /\ heapAtEnd[i] > maxMemory
scriptFailure(i) ==
    REJECTED(i) \/ TIMED_OUT(i) \/ CALL_LIMIT(i) \/ FAULTED(i) \/ MEM_LIMIT(i)
\* the messages now in the arrays a record refers to
logsOf(rec) == logArr[rec.logs]
errorsOf(rec) == errArr[rec.errors]

\* ------------------------------------------------------------------ claims
\* C1: executeScript never throws for a script-level failure: an invocation
\* that ended in a policy violation, a timeout, a call-budget overrun, a
\* memory-ceiling overrun or a runtime error of the script body (and whose
\* file writes all succeeded) has returned a record with success = false.
C1_NeverThrowsForScriptFailure ==
    \A i \in Inv :
        (finished(i) /\ scriptFailure(i) /\ ~ioFailed[i]) => failedRecord(i)

\* C2: every invocation that ends in one of the five failure states reaches
\* PERSISTED: when it has finished (its file writes having succeeded), the
\* results store holds its record, with success = false.
C2_FailurePersisted ==
    \A i \in Inv :
        (finished(i) /\ scriptFailure(i) /\ ~ioFailed[i])
            => /\ resultPath(i) \in DOMAIN resultsDir
               /\ ~resultsDir[resultPath(i)].success

\* C3: under every interleaving of invocations, the logs and errors of each
\* returned record, and of each record on file, hold exactly the messages
\* its own script emitted, in emission order, also after the return (for
\* the invocations whose file writes all succeeded).
C3_LogsAreOwn ==
    \A i \in Inv :
        /\ (ret[i].kind = "record" /\ ~ioFailed[i])
              => /\ logsOf(ret[i].rec) = emitted[i].logs
                 /\ errorsOf(ret[i].rec) = emitted[i].errors
        /\ (pc[i] = "returned" /\ ~ioFailed[i])
              => /\ resultsDir[resultPath(i)].logs = emitted[i].logs
                 /\ resultsDir[resultPath(i)].errors = emitted[i].errors

\* C4: the call budget is per invocation: while a script body runs, the
\* counter holds the console calls of that script alone, and a call-budget
\* failure comes at the same call as for a script running alone.
C4_BudgetPerInvocation ==
    \A i \in Inv :
        /\ running = i => callCount = nCalls[i]
        /\ CALL_LIMIT(i) => nCalls[i] = maxCalls + 2

\* a record has a result and no error, or an error and no result, as its
\* success says
oneOfResultAndError(rec) ==
    LET hasResult == rec.result.t \notin {"absent", "undefined"}
        hasError == rec.error # NoError
    IN  /\ rec.success => (hasResult /\ ~hasError)
        /\ ~rec.success => (hasError /\ ~hasResult)

\* C5: every record returned or written has exactly one of result and
\* error, as success says: a result and no error when success = true, an
\* error and no result when success = false.
C5_ResultXorError ==
    /\ \A i \in Inv : ret[i].kind = "record" => oneOfResultAndError(ret[i].rec)
    /\ \A f \in DOMAIN resultsDir : oneOfResultAndError(resultsDir[f])

\* C6: a script that ran to completion within its budgets has a record with
\* success = true whose result is the sanitized value of its final
\* expression.
C6_ResultIsSanitized ==
    \A i \in Inv :
        (finished(i) /\ bodyEnd[i] = "completed" /\ heapAtEnd[i] <= maxMemory
            /\ ~ioFailed[i])
            => /\ ret[i].kind = "record"
               /\ ret[i].rec.success
               /\ ret[i].rec.result = sanitizeOutput(finalValue[i])

\* C7: a script that made more than maxCalls console calls has a record with
\* success = false and the call-budget error, and the call that failed is
\* the first one past maxCalls (memory and file writes being in order).
C7_FailsPastMaxCalls ==
    \A i \in Inv :
        /\ (finished(i) /\ nCalls[i] > maxCalls /\ heapAtEnd[i] <= maxMemory
               /\ ~ioFailed[i])
              => (failedRecord(i) /\ ret[i].rec.error = TooManyCalls)
        /\ CALL_LIMIT(i) => nCalls[i] = maxCalls + 1

\* C8: the record of a call-budget failure holds, in logs and errors
\* together, exactly the messages of the first maxCalls console calls, in
\* call order, and nothing of the call that failed.
C8_LogsUpToLimit ==
    \A i \in Inv :
        (failedRecord(i) /\ ret[i].rec.error = TooManyCalls)
            => /\ Len(logsOf(ret[i].rec)) + Len(errorsOf(ret[i].rec)) = maxCalls
               /\ logsOf(ret[i].rec) = emitted[i].logs
               /\ errorsOf(ret[i].rec) = emitted[i].errors
               /\ \A m \in 1..Len(logsOf(ret[i].rec)) : logsOf(ret[i].rec)[m][2] <= maxCalls
               /\ \A m \in 1..Len(errorsOf(ret[i].rec)) : errorsOf(ret[i].rec)[m][2] <= maxCalls

\* C9: when invocations do not overlap, each starts from zero: while the
\* body of invocation i runs, this.logs and this.errors are the arrays i
\* created and hold only what i emitted, the counter holds the calls of i
\* alone, the call budget fails at the same call (the second one past
\* maxCalls) whatever ran before, and the record of i holds exactly the
\* messages of i.
C9_FreshStateEachInvocation ==
    \A i \in Inv :
        /\ running = i
              => /\ logs = i /\ errors = i
                 /\ callCount = nCalls[i]
                 /\ logArr[logs] = emitted[i].logs
                 /\ errArr[errors] = emitted[i].errors
        /\ running = i => nCalls[i] <= maxCalls + 1
        /\ CALL_LIMIT(i) => nCalls[i] = maxCalls + 2
        /\ ret[i].kind = "record"
              => /\ logsOf(ret[i].rec) = emitted[i].logs
                 /\ errorsOf(ret[i].rec) = emitted[i].errors

\* an invocation returned its record, having made console calls, after an
\* earlier invocation had failed on the call budget
C9_Witness ==
    \E i, j \in Inv :
        /\ j < i
        /\ CALL_LIMIT(j) /\ finished(j)
        /\ pc[i] = "returned" /\ ret[i].rec.success
        /\ nCalls[i] = maxCalls + 1

\* C10: the memory ceiling is checked after every run: an invocation whose
\* script body ended while heap usage was above maxMemory has a record with
\* success = false and the memory-limit error, also when the body completed.
C10_MemoryCheckedAfterRun ==
    \A i \in Inv :
        (finished(i) /\ MEM_LIMIT(i) /\ ~ioFailed[i])
            => (failedRecord(i) /\ ret[i].rec.error = MemoryLimit)

\* C11: getScriptHistory(id) returns all and only the records on file whose
\* script id equals id (an id that id is a mere prefix of does not count),
\* and nothing for an id that was never used.
C11_HistoryOfExactId ==
    history.called =>
        { history.files[n] : n \in DOMAIN history.files }
            = { f \in DOMAIN resultsDir : f[1] = history.scriptId }

\* C12: getScriptHistory(id) returns the records of id in the order in which
\* they were appended (awaited calls: the order of their start times).
C12_HistoryInAppendOrder ==
    history.called =>
        \A m, n \in DOMAIN history.files :
            (/\ m < n
             /\ history.files[m][1] = history.scriptId
             /\ history.files[n][1] = history.scriptId)
                => history.files[m][2] < history.files[n][2]

\* C13: a script that never terminates is preempted at the timeout, and its
\* invocation (its file writes having succeeded) returns a record with
\* success = false whose error is the timeout error.
C13_TimeoutReturnsFailedRecord ==
    \A i \in Inv :
        (finished(i) /\ TIMED_OUT(i) /\ ~ioFailed[i])
            => (failedRecord(i) /\ ret[i].rec.error = TimedOut)

\* the pieces an error message is made of
pieces(error) == { error.message[p] : p \in DOMAIN error.message }

\* C16: the rejection of a script that uses a blacklisted symbol carries the
\* symbol of the catalog entry, its risk level and the list of its reasons.
C16_RejectionCarriesEntry ==
    LET \* the error an invocation ended with, returned in a record or thrown
        outcomeError(i) ==
            IF ret[i].kind = "record" THEN ret[i].rec.error ELSE ret[i].error
    IN  \A i \in Inv :
            (finished(i) /\ REJECTED(i)) =>
                \E k \in DOMAIN BLACKLIST :
                    /\ BLACKLIST[k].symbol \in pieces(outcomeError(i))
                    /\ BLACKLIST[k].risk \in pieces(outcomeError(i))
                    /\ \A r \in DOMAIN BLACKLIST[k].reasons :
                           BLACKLIST[k].reasons[r] \in pieces(outcomeError(i))

\* ------------------------------------------- the input and the output graph
\* the value of the call's argument at a path of property names
RECURSIVE InAt(_, _)
InAt(value, path) ==
    IF path = <<>> THEN value
    ELSE IF value.t # "object" THEN Absent
    ELSE LET props == heap[value.n]
             at == { m \in DOMAIN props : props[m].k = Head(path) }
         IN  IF at = {} THEN Absent
             ELSE InAt(props[CHOOSE m \in at : TRUE].v, Tail(path))
\* the value of the sanitized output at a path
RECURSIVE OutAt(_, _)
OutAt(tree, path) ==
    IF path = <<>> THEN tree
    ELSE LET at == { m \in DOMAIN tree.props : tree.props[m].k = Head(path) }
         IN  IF at = {} THEN Absent
             ELSE OutAt(tree.props[CHOOSE m \in at : TRUE].v, Tail(path))
\* the paths of the sanitized output
RECURSIVE PathsOf(_)
PathsOf(tree) ==
    { <<>> } \cup UNION { { << tree.props[m].k >> \o path : path \in PathsOf(tree.props[m].v) }
                          : m \in DOMAIN tree.props }
\* path q is met before path p by a walk in property order
RECURSIVE before(_, _)
before(q, p) ==
    IF q = <<>> THEN p # <<>>
    ELSE IF p = <<>> THEN FALSE
    ELSE IF Head(q) = Head(p) THEN before(Tail(q), Tail(p))
    ELSE (CHOOSE m \in DOMAIN Keys : Keys[m] = Head(q))
             < (CHOOSE m \in DOMAIN Keys : Keys[m] = Head(p))
Circular == Str("[Circular]")
expanded(path) == OutAt(sanOut, path).t = "jsonobject"

\* C14: sanitizeOutput of an object graph, cyclic or not, returns without
\* throwing; each object of the graph is written out where the walk meets it
\* first and has the circular marker wherever the walk meets it again, so
\* that no object is written out twice and the output has no cycle.
C14_CyclesAreMarked ==
    (sanIn.t = "object" /\ sanOut # NotSanitized) =>
        /\ sanOut # Throws
        /\ sanOut.t = "jsonobject"
        /\ \A p \in PathsOf(sanOut) :
              /\ OutAt(sanOut, p) = Circular
                    => \E q \in PathsOf(sanOut) :
                          /\ before(q, p)
                          /\ expanded(q)
                          /\ InAt(sanIn, q) = InAt(sanIn, p)
              /\ expanded(p)
                    => /\ InAt(sanIn, p).t = "object"
                       /\ \A q \in PathsOf(sanOut) \ {p} :
                             expanded(q) => InAt(sanIn, q) # InAt(sanIn, p)
                       /\ \A m \in DOMAIN heap[InAt(sanIn, p).n] :
                             heap[InAt(sanIn, p).n][m].v.t = "object"
                                => \/ expanded(p \o << heap[InAt(sanIn, p).n][m].k >>)
                                   \/ OutAt(sanOut, p \o << heap[InAt(sanIn, p).n][m].k >>)
                                         = Circular

\* a graph with a cycle through the argument was sanitized: the marker
\* stands where the walk comes back to the argument
C14_Witness ==
    /\ sanIn.t = "object" /\ sanOut # NotSanitized
    /\ \E p \in PathsOf(sanOut) :
          /\ Len(p) = 2
          /\ OutAt(sanOut, p) = Circular
          /\ InAt(sanIn, p) = sanIn

\* C15: sanitizeOutput renders every function as its descriptor string,
\* nested or as the argument itself, so that the output holds no function;
\* numbers and strings come back unchanged.
C15_FunctionsAreDescribed ==
    LET descriptor(f) ==
            Str("[Function: " \o (IF f.s = "" THEN "anonymous" ELSE f.s) \o "]")
    IN  sanOut # NotSanitized =>
            /\ sanIn.t = "function" => sanOut = descriptor(sanIn)
            /\ sanIn.t \in {"number", "string"} => sanOut = sanIn
            /\ sanOut.t # "function"
            /\ sanIn.t = "object" =>
                  \A p \in PathsOf(sanOut) :
                      /\ OutAt(sanOut, p).t # "function"
                      /\ InAt(sanIn, p).t = "function"
                            => OutAt(sanOut, p) = descriptor(InAt(sanIn, p))
                      /\ InAt(sanIn, p).t \in {"number", "string"}
                            => OutAt(sanOut, p) = InAt(sanIn, p)

\* ------------------------------------------------------ SimpleDB vocabulary
ended(t) == dbPc[t] = "done"
\* C17: when every task has read the document and updated it with the
\* counter it read plus one, and all have completed, the counter on file is
\* the initial counter, 0, plus the number of tasks.
C17_NoIncrementLost ==
    LET \* the task has gone through its read and its update, or its read threw
        completed(t) ==
            /\ ended(t)
            /\ nOps[t] = 2 \/ dbResult[t].kind = "threw"
    IN  (\A t \in Tasks : completed(t))
            => \A id \in DocIds : docs[id].counter = NumTasks

\* C18: of the create calls with one id, also concurrent ones, exactly one
\* succeeds: when all have ended, one has returned its document, which is
\* the document on file, and every other one has thrown.
C18_OneCreateSucceeds ==
    \A id \in DocIds :
        (\A t \in Tasks : ended(t) /\ dbOp[t].id = id)
            => \E t \in Tasks :
                  /\ ended(t) /\ dbResult[t] = ReturnedDoc(dbOp[t].arg)
                  /\ docs[id] = dbOp[t].arg
                  /\ \A u \in Tasks \ {t} : dbResult[u].kind = "threw"

\* C19: an awaited update of a document that is on file returns and stores
\* the document with the fields of updates at their new values, the other
\* fields as they were and the id as it was; of an id with no document it
\* throws 'not found' and writes nothing.
C19_UpdateMerges ==
    \A t \in Tasks :
        (ended(t) /\ dbOp[t].name = "update") =>
            IF docAtCall[t] # NoDoc
            THEN LET updates == dbOp[t].arg
                     expected ==
                         Doc(docAtCall[t].id,
                             IF updates.name # "" THEN updates.name
                             ELSE docAtCall[t].name,
                             IF updates.counter # NoCounter THEN updates.counter
                             ELSE docAtCall[t].counter)
                 IN  /\ dbResult[t] = ReturnedDoc(expected)
                     /\ lastDone = t => docs[dbOp[t].id] = expected
            ELSE /\ dbResult[t] = Threw(NotFound)
                 /\ lastDone = t => docs[dbOp[t].id] = NoDoc

\* C20: an awaited delete returns true exactly when the document was on
\* file and false when it was not, and leaves no document; an awaited read
\* returns the document on file, null after a delete and null for an id no
\* document was ever written for, and does not throw.
C20_DeleteAndRead ==
    \A t \in Tasks :
        /\ (ended(t) /\ dbOp[t].name = "delete")
              => /\ dbResult[t] = ReturnedBool(docAtCall[t] # NoDoc)
                 /\ lastDone = t => docs[dbOp[t].id] = NoDoc
        /\ (ended(t) /\ dbOp[t].name = "read")
              => /\ dbResult[t] = ReturnedDoc(docAtCall[t])
                 /\ dbOp[t].id \notin everCreated => dbResult[t] = ReturnedDoc(NoDoc)
                 /\ lastDone = t => docs[dbOp[t].id] = docAtCall[t]

\* a delete returned true and the read awaited after it returned null; and
\* a delete of no document returned false
C20_Witness ==
    \E t, u \in Tasks :
        /\ ended(t) /\ dbOp[t].name = "delete" /\ dbResult[t] = ReturnedBool(TRUE)
        /\ ended(u) /\ dbOp[u].name = "read" /\ lastDone = u
        /\ dbOp[u].id = dbOp[t].id
        /\ dbOp[u].id \in everCreated
        /\ dbResult[u] = ReturnedDoc(NoDoc)

\* ------------------------------------------------- claims C21 to C30
\* C22: an invocation that checkBlacklist rejects ends at once: it builds
\* no context, its script body never runs (no console call, no end of the
\* body), and its text is not written to the script store; the store holds
\* no text that checkBlacklist rejects.
C22_RejectedBeforeAnything ==
    /\ \A i \in Inv :
          REJECTED(i) => /\ pc[i] = "threw"
                         /\ running # i
                         /\ bodyEnd[i] = "none"
                         /\ nCalls[i] = 0
                         /\ emitted[i].logs = <<>> /\ emitted[i].errors = <<>>
    /\ \A id \in DOMAIN scriptsDir : checkBlacklist(scriptsDir[id]) = NoError

\* an invocation was rejected while the script store holds the text another
\* invocation wrote under the same script id
C22_Witness ==
    \E i \in Inv :
        /\ REJECTED(i)
        /\ ret[i].kind = "exception"
        /\ scriptId[i] \in DOMAIN scriptsDir

\* C24: the text of a script is written under its id before the body runs,
\* however the run ends, and once: the store holds under each id the text
\* of the first invocation that wrote one, whatever later invocations with
\* that id were given.
C24_ScriptTextWriteOnce ==
    LET \* the invocation's fs.writeFile of its script text succeeded
        wroteScript(i) == pc[i] = "running" \/ bodyEnd[i] # "none"
        \* the first invocation that wrote a text under id
        firstWriter(id) ==
            CHOOSE i \in Inv :
                /\ wroteScript(i) /\ scriptId[i] = id
                /\ \A j \in 1..(i - 1) : ~(wroteScript(j) /\ scriptId[j] = id)
    IN  /\ \A i \in Inv : wroteScript(i) => scriptId[i] \in DOMAIN scriptsDir
        /\ \A id \in DOMAIN scriptsDir : scriptsDir[id] = scriptContent[firstWriter(id)]

C26_ThrowGivesFailedRecord ==
    \A i \in Inv :
        (finished(i) /\ FAULTED(i) /\ ~ioFailed[i])
            => /\ failedRecord(i)
               /\ ret[i].rec.error.message = ScriptError.message
               /\ logsOf(ret[i].rec) = emitted[i].logs
               /\ errorsOf(ret[i].rec) = emitted[i].errors

\* C30: an invocation whose script passed checkBlacklist and whose body ran
\* to its end returns, when it returns a record, one with success = true:
\* a failure to serialize or to write is not reported as a failed run.
C30_FailedRecordOnlyForScriptFailure ==
    \A i \in Inv :
        (bodyEnd[i] = "completed" /\ ret[i].kind = "record") => ret[i].rec.success

\* the maximal runs in text of characters of the set run
runs(text, run) ==
    { SubSeq(text, ab[1], ab[2]) : ab \in
        { ab \in (1..Len(text)) \X (1..Len(text)) :
            /\ ab[1] <= ab[2]
            /\ \A p \in ab[1]..ab[2] : text[p] \in run
            /\ ab[1] = 1 \/ text[ab[1] - 1] \notin run
            /\ ab[2] = Len(text) \/ text[ab[2] + 1] \notin run } }
\* the catalog entries whose symbol is a whole word of text, one of its
\* maximal runs of word characters
entriesIn(text) ==
    { k \in DOMAIN BLACKLIST : chars(BLACKLIST[k].symbol) \in runs(text, WordChars) }

\* C23: checkBlacklist rejects a text exactly when a catalog symbol is one
\* of its whole words, in code, in a string or anywhere else, and not when
\* the symbol is only part of a longer word; the error names the first such
\* entry in catalog order.  It rejects the text exactly as it rejects the
\* sequence of the text's words.
C23_WholeWordMatch ==
    scanOut # NotScanned =>
        /\ entriesIn(scanIn) = {} <=> scanOut = NoError
        /\ entriesIn(scanIn) # {} =>
              LET first == CHOOSE k \in entriesIn(scanIn) :
                               \A m \in entriesIn(scanIn) : k <= m
              IN  /\ BLACKLIST[first].symbol \in pieces(scanOut)
                  /\ BLACKLIST[first].risk \in pieces(scanOut)
        /\ scanOut = checkBlacklist(wordTokens(scanIn, ""))

\* the text 'os fs', of two catalog symbols in a string, was rejected for
\* fs, the first of the two in the catalog
C23_Witness ==
    /\ scanOut # NotScanned
    /\ scanIn = << "o", "s", " ", "f", "s" >>
    /\ "fs" \in pieces(scanOut)

\* C23 as stated: checkBlacklist rejects a text exactly when a catalog
\* symbol is a whole identifier of it, a maximal run of the characters of
\* JavaScript identifiers, which are the word characters and the dollar; a
\* symbol that is only part of a longer identifier does not cause rejection.
C23_WholeIdentifierMatch ==
    scanOut # NotScanned =>
        ((\E k \in DOMAIN BLACKLIST :
              chars(BLACKLIST[k].symbol) \in runs(scanIn, WordChars \cup { "$" }))
            <=> scanOut # NoError)

\* task t is between the return of the acquireLock of its call (lines 86,
\* 108, 124, 145) and the releaseLock of the finally of that call; an update
\* holds the lock from line 124 on, through its this.read
holdsLock(t) ==
    \/ dbPc[t] \in {"access", "write", "readFile", "unlinkDoc", "release"}
    \/ inner[t] /\ dbPc[t] \in {"tryLock", "stat", "unlinkLock", "sleep"}

\* C27: at most one call at a time holds the lock of an id: two tasks that
\* both hold a lock hold locks of different ids, under every interleaving
\* and also after a waiter has unlinked a lock file it judged stale.
C27_MutualExclusion ==
    \A t, u \in Tasks :
        (t # u /\ holdsLock(t) /\ holdsLock(u)) => dbOp[t].id # dbOp[u].id

\* C28: once every call has ended no lock file remains, and no releaseLock
\* removes a lock file that a different call currently holds: one that
\* another task wrote and has not yet released.
C28_ReleaseOwnLockOnly ==
    /\ []((\A t \in Tasks : dbPc[t] \in {"idle", "done"})
            => \A id \in DocIds : ~lockFile[id].exists)
    /\ [][\A t \in Tasks :
            ~(/\ Release(t)
              /\ lockOf(t).exists
              /\ lockOf(t).owner \in Tasks \ {t}
              /\ holdsLock(lockOf(t).owner)
              /\ dbOp[lockOf(t).owner].id = dbOp[t].id)]_vars

\* C29: every call eventually completes: acquireLock counts at most
\* maxRetries attempts, and under fair scheduling every call in flight
\* ends, returning or throwing.
C29_EveryCallCompletes ==
    /\ [](\A t \in Tasks : retries[t] <= maxRetries)
    /\ \A t \in Tasks : (dbPc[t] \notin {"idle", "done"}) ~> ended(t)

\* a call has ended with 'Failed to acquire lock' after maxRetries counted
\* attempts, and another one by its return
C29_Witness ==
    \E t, u \in Tasks :
        /\ ended(t) /\ dbResult[t] = Threw(LockFailed) /\ retries[t] = maxRetries
        /\ ended(u) /\ dbResult[u].kind = "returned"

\* ------------------------------------------------------------------- find
\* the document ids of the collection find is called on
FindIds == { "d1", "d2" }
\* the counters of the documents on file, and the numbers queries hold
Counters == { 0, 1 }
\* the file of a document: `${id}.json`
docFile(id) ==
    (IF id = "d1" THEN << "d", "1" >> ELSE << "d", "2" >>) \o << ".", "j", "s", "o", "n" >>
\* a file of the collection directory that is not a document
Strays == { << "d", "1", ".", "j", "s", "o", "n", "~" >> }

\* the value of an operator: a number, or an array of numbers
OpValue(isArray, num, elems) == [isArray |-> isArray, num |-> num, elems |-> elems]
\* the operators of the switch of matchesQuery
KnownOps == { "$gt", "$gte", "$lt", "$lte", "$ne", "$in" }
\* the entries an operator object has at most
MaxOperators == 2
\* a condition of a query, as Object.entries gives it: a key with a plain
\* value (a string for name, a number for counter) or with an operator
\* object, itself given by its entries
Cond(key, plain, str, num, ops) ==
    [key |-> key, plain |-> plain, str |-> str, num |-> num, ops |-> ops]
\* Object.entries of the queries find is called with: the keys of a query
\* are distinct, and so are the operators of an operator object; $eq is an
\* operator that matchesQuery does not know
Queries ==
    LET OpEntries ==
            { << op, OpValue(FALSE, n, {}) >> :
                  op \in { "$gt", "$gte", "$lt", "$lte", "$ne", "$eq" }, n \in Counters }
                \cup { << "$in", a >> : a \in { OpValue(TRUE, 0, e) : e \in SUBSET Counters }
                                                \cup { OpValue(FALSE, n, {}) : n \in Counters } }
        OpObjects ==
            { ops \in UNION { [1..n -> OpEntries] : n \in 0..MaxOperators } :
                \A m, n \in DOMAIN ops : m # n => ops[m][1] # ops[n][1] }
        NameConds == { Cond("name", TRUE, v, 0, << >>) : v \in { "n", "zz" } }
        CounterConds ==
            { Cond("counter", TRUE, "", v, << >>) : v \in Counters \cup { 100 } }
                \cup { Cond("counter", FALSE, "", 0, ops) : ops \in OpObjects }
    IN  { << >> }
            \cup { << c >> : c \in NameConds \cup CounterConds }
            \cup { << c, d >> : c \in NameConds, d \in CounterConds }
            \cup { << d, c >> : c \in NameConds, d \in CounterConds }

\* doc.hasOwnProperty(key)
hasOwnProperty(doc, key) ==
    IF key = "name" THEN doc.name # "" ELSE doc.counter # NoCounter

\* a switch whose case $gte tests as $gt does
opTestStrict(op, x, opValue) ==
    CASE op = "$gt" -> x > opValue.num
      [] op = "$gte" -> x > opValue.num
      [] op = "$lt" -> x < opValue.num
      [] op = "$lte" -> x <= opValue.num
      [] op = "$ne" -> ~(x = opValue.num)
      [] op = "$in" -> ~(~opValue.isArray \/ x \notin opValue.elems)

\* the case of the switch for op with the condition it tests,
\* doc[key] being x; a test that fails makes matchesQuery return false
opTest(op, x, opValue) ==
    CASE op = "$gt" -> x > opValue.num
      [] op = "$gte" -> x >= opValue.num
      [] op = "$lt" -> x < opValue.num
      [] op = "$lte" -> x <= opValue.num
      [] op = "$ne" -> ~(x = opValue.num)
      [] op = "$in" -> ~(~opValue.isArray \/ x \notin opValue.elems)

\* the inner loop of matchesQuery over the entries of an operator object,
\* from entry m on: "false" at the first test that fails, "throws" at an
\* operator the switch does not know, "true" at the end
RECURSIVE operatorsFrom(_, _, _)
operatorsFrom(x, ops, m) ==
    IF m > Len(ops) THEN "true"
    ELSE IF ops[m][1] \notin KnownOps THEN "throws"
    ELSE IF ~opTest(ops[m][1], x, ops[m][2]) THEN "false"
    ELSE operatorsFrom(x, ops, m + 1)

\* matchesQuery(doc, query): its loop over the entries of the query, from
\* entry n on
RECURSIVE matchesQuery(_, _, _)
matchesQuery(doc, query, n) ==
    IF n > Len(query) THEN "true"
    ELSE IF ~hasOwnProperty(doc, query[n].key) THEN "false"
    ELSE IF ~query[n].plain
    THEN LET inner_ == operatorsFrom(doc.counter, query[n].ops, 1)
         IN  IF inner_ = "true" THEN matchesQuery(doc, query, n + 1) ELSE inner_
    ELSE IF query[n].key = "name" /\ doc.name # query[n].str THEN "false"
    ELSE IF query[n].key = "counter" /\ doc.counter # query[n].num THEN "false"
    ELSE matchesQuery(doc, query, n + 1)

\* the loop of find over files, documents being what it has pushed; find
\* ends by returning them or by the throw of matchesQuery.  id is
\* file.slice(0, -5), and doc what this.read(collection, id) returns when no
\* other call is in flight and no lock file is left: the lock is free, the
\* document on file (or null) is returned and the lock file removed again.
RECURSIVE findFrom(_, _, _, _)
findFrom(store, files, query, documents) ==
    IF files = << >> THEN [kind |-> "returned", docs |-> documents]
    ELSE IF ~endsWith(Head(files), << ".", "j", "s", "o", "n" >>)
    THEN findFrom(store, Tail(files), query, documents)
    ELSE LET id == CHOOSE d \in FindIds :
                       SubSeq(docFile(d), 1, Len(docFile(d)) - 5)
                           = SubSeq(Head(files), 1, Len(Head(files)) - 5)
             doc == store[id]
             matches == IF doc = NoDoc THEN "false" ELSE matchesQuery(doc, query, 1)
         IN  IF matches = "throws" THEN [kind |-> "threw", docs |-> << >>]
             ELSE findFrom(store, Tail(files), query,
                           IF matches = "true" THEN Append(documents, doc)
                           ELSE documents)

\* the orders in which fs.readdir may list the files of the collection
\* directory: the files of the documents and, or not, the stray file
listings(store) ==
    LET directory(strays) ==
            { docFile(id) : id \in { i \in FindIds : store[i] # NoDoc } } \cup strays
    IN  UNION { { files \in [1..Cardinality(directory(strays)) -> directory(strays)] :
                    \A m, n \in DOMAIN files : m # n => files[m] # files[n] }
                : strays \in SUBSET Strays }

\* the collection holds documents, each with a name and with or without a
\* counter, and no call is in flight
InitFind ==
    /\ InitEnv
    /\ heap = ObjHeap
    /\ history = NoHistory
    /\ sanIn = Absent
    /\ sanOut = NotSanitized
    /\ InitCalls
    /\ InitTasks
    /\ lockFile = [id \in FindIds |-> NoLock]
    /\ docs \in [FindIds -> { Doc(id, n, c) : id \in FindIds, n \in { "n", "m" },
                                              c \in Counters \cup { NoCounter } }
                              \cup { NoDoc }]
    /\ \A id \in FindIds : docs[id] = NoDoc \/ docs[id].id = id
    /\ everCreated = { id \in FindIds : docs[id] # NoDoc }

\* find(collection, query), awaited, fs.readdir listing the directory as files
Find(query, files) ==
    /\ \A t \in Tasks : dbPc[t] \in {"idle", "done"}
    /\ \A id \in DOMAIN lockFile : ~lockFile[id].exists
    /\ findIn' = [query |-> query, files |-> files]
    /\ findOut' = findFrom(docs, files, query, << >>)
    /\ UNCHANGED << scriptEnv, heap, history, sanIn, sanOut, db, scanIn, scanOut >>

\* one call of find on the collection
NextFind ==
    /\ findOut = NotFoundYet
    /\ \E query \in Queries, files \in listings(docs) : Find(query, files)

SpecFind == InitFind /\ [][NextFind]_vars

\* the stored documents that satisfy every condition of the query: a
\* document satisfies a condition when it has the field, and the field
\* equals the plain value, or stands to the value of every operator as the
\* operator says
satisfying(query) ==
    LET satisfiesCond(doc, c) ==
            /\ IF c.key = "name" THEN doc.name # "" ELSE doc.counter # NoCounter
            /\ c.plain /\ c.key = "name" => doc.name = c.str
            /\ c.plain /\ c.key = "counter" => doc.counter = c.num
            /\ ~c.plain =>
                  \A m \in DOMAIN c.ops :
                      LET o == c.ops[m][1]
                          v == c.ops[m][2]
                      IN  /\ o = "$gt" => doc.counter \in { x \in Counters : x > v.num }
                          /\ o = "$gte" => doc.counter \in { x \in Counters : x >= v.num }
                          /\ o = "$lt" => doc.counter \in { x \in Counters : x < v.num }
                          /\ o = "$lte" => doc.counter \in { x \in Counters : x <= v.num }
                          /\ o = "$ne" => doc.counter \in Counters \ { v.num }
                          /\ o = "$in" => v.isArray /\ doc.counter \in v.elems
    IN  { docs[id] : id \in { i \in FindIds :
                                /\ docs[i] # NoDoc
                                /\ \A n \in DOMAIN query : satisfiesCond(docs[i], query[n]) } }

\* C21: find returns exactly the stored documents that satisfy every
\* condition of the query, each once: plain values by equality, operator
\* objects by $gt, $gte, $lt, $lte, $ne and $in; the empty query returns
\* every document, and a query that no document satisfies the empty list.
C21_FindReturnsMatches ==
    LET query == findIn.query
        knownOperators ==
            \A n \in DOMAIN query :
                \A m \in DOMAIN query[n].ops : query[n].ops[m][1] \in KnownOps
    IN  (findOut # NotFoundYet /\ knownOperators) =>
            /\ findOut.kind = "returned"
            /\ { findOut.docs[n] : n \in DOMAIN findOut.docs } = satisfying(query)
            /\ Len(findOut.docs) = Cardinality(satisfying(query))
            /\ query = << >> =>
                  Len(findOut.docs) = Cardinality({ id \in FindIds : docs[id] # NoDoc })
            /\ satisfying(query) = {} => findOut.docs = << >>

\* of two documents on file, beside a file that is no document, find with
\* { counter: { $gte: 1 } } returned the one whose counter is 1
C21_Witness ==
    /\ findIn.query = << Cond("counter", FALSE, "", 0, << << "$gte", OpValue(FALSE, 1, {}) >> >>) >>
    /\ \E n \in DOMAIN findIn.files : findIn.files[n] \in Strays
    /\ docs["d1"] # NoDoc /\ docs["d1"].counter = 0
    /\ docs["d2"] # NoDoc /\ docs["d2"].counter = 1
    /\ findOut = [kind |-> "returned", docs |-> << docs["d2"] >>]

============================================================================
